---- MODULE Spec2Model ----
(***************************************************************************)
(* Job/resume "snapshot and hydrate" coordination of rtios-ai.             *)
(*                                                                         *)
(* State: the persisted blob under STORAGE_KEY, the career store           *)
(* (CareerContextProvider), the jobs hook (useJobApplications), the        *)
(* workspace store, the workspace values captured by the memoised          *)
(* callbacks of useJobManagement, and the generations in flight.           *)
(* One action per handler; an action includes the re-render and the        *)
(* effects (save on change) the handler causes.                            *)
(***************************************************************************)
EXTENDS Integers, Sequences, FiniteSets, TLC

\* ------------------------------------------------------------------ bounds
\* number of ids addJob may mint (crypto.randomUUID is unbounded)
MaxJobs == 2
\* longest interview-question list
MaxQuestions == 2
\* generations that may be awaiting the AI service at once
MaxInflight == 2
\* generations started in one run
MaxGenerations == 2
\* resumes, and jobs, held in memory when the storage adapter is exercised
MaxStored == 2

\* ------------------------------------------------------------ JS values
NULL == "null"
UNDEF == "undefined"
\* JSON values that are not strings (typeof v !== 'string')
JNull == NULL
JNum == "<json number>"
IsStr(v) == v \notin {JNull, JNum}

\* Date objects are millisecond timestamps; NaN is the invalid Date
InvalidDate == -1
NoDate == -2
IsoOf == << "1970-01-01T00:00:00.001Z", "1970-01-01T00:00:00.002Z",
            "1970-01-01T00:00:00.003Z" >>
Dates == {2}

\* Date.prototype.toJSON: the ISO string, null for an invalid Date
DateToJSON(d) == IF d \in DOMAIN IsoOf THEN IsoOf[d] ELSE JNull
\* new Date(string): the timestamp of an ISO string, else the invalid Date
NewDate(s) ==
  IF \E i \in DOMAIN IsoOf : IsoOf[i] = s
  THEN CHOOSE i \in DOMAIN IsoOf : IsoOf[i] = s
  ELSE InvalidDate

\* { ...a, ...b }
Spread(a, b) ==
  [k \in (DOMAIN a) \cup (DOMAIN b) |-> IF k \in DOMAIN b THEN b[k] ELSE a[k]]
NoKeys == [k \in {} |-> NULL]
Has(o, k) == k \in DOMAIN o

\* Array.prototype.map (filter is SelectSeq)
SeqMap(s, F(_)) == [i \in 1..Len(s) |-> F(s[i])]

\* ------------------------------------------------------------ workspace
ToneProfessional == "Professional"
ToneConversational == "Conversational"
DefaultInput == "new"

DefaultCoverLetter ==
  [content |-> "", isGenerating |-> FALSE, tone |-> ToneProfessional]
DefaultLinkedIn(input) ==
  [input |-> input, generatedMessage |-> "", isGenerating |-> FALSE]
DefaultInterviewPrep == [questions |-> << >>, isGenerating |-> FALSE]

InitialWorkspace ==
  [status |-> "idle", error |-> UNDEF, resumeText |-> "",
   research |-> NULL, analysis |-> NULL,
   coverLetter |-> DefaultCoverLetter,
   linkedIn |-> DefaultLinkedIn(DefaultInput),
   interviewPrep |-> DefaultInterviewPrep]

OutputKeys == {"research", "analysis", "coverLetter", "linkedIn", "interviewPrep"}

\* the content fields of a workspace, as a function over OutputKeys
Content(w) == [k \in OutputKeys |-> w[k]]

\* workspace store setters
setStatus(w, s) == [w EXCEPT !.status = s]
setError(w, e) == [w EXCEPT !.error = e]
setResumeText(w, t) == [w EXCEPT !.resumeText = t]
setResearch(w, r) == [w EXCEPT !.research = r]
setAnalysis(w, a) == [w EXCEPT !.analysis = a]
updateCoverLetter(w, p) ==
  [w EXCEPT !.coverLetter =
     [content |-> IF Has(p, "content") THEN p.content ELSE @.content,
      isGenerating |-> IF Has(p, "isGenerating") THEN p.isGenerating ELSE @.isGenerating,
      tone |-> IF Has(p, "tone") THEN p.tone ELSE @.tone]]
updateLinkedIn(w, p) ==
  [w EXCEPT !.linkedIn =
     [input |-> IF Has(p, "input") THEN p.input ELSE @.input,
      generatedMessage |-> IF Has(p, "generatedMessage") THEN p.generatedMessage
                           ELSE @.generatedMessage,
      isGenerating |-> IF Has(p, "isGenerating") THEN p.isGenerating ELSE @.isGenerating]]
updateInterviewPrep(w, p) ==
  [w EXCEPT !.interviewPrep =
     [questions |-> IF Has(p, "questions") THEN p.questions ELSE @.questions,
      isGenerating |-> IF Has(p, "isGenerating") THEN p.isGenerating ELSE @.isGenerating]]
clearWorkspace(w, input) ==
  [w EXCEPT !.research = NULL, !.analysis = NULL,
            !.coverLetter = DefaultCoverLetter,
            !.linkedIn = DefaultLinkedIn(input),
            !.interviewPrep = DefaultInterviewPrep]

\* ------------------------------------------------- JobSnapshotController
\* Workspace -> JobOutputs
createSnapshot(appState) == [k \in OutputKeys |-> appState[k]]

NoJob == [id |-> UNDEF, title |-> "", company |-> "", description |-> "",
          dateAdded |-> NoDate, outputs |-> NoKeys]

\* JobInfo | undefined -> partial Workspace
hydrateFromJob(job, input) ==
  LET o == job.outputs
  IN [research |-> IF Has(o, "research") THEN o.research ELSE NULL,
      analysis |-> IF Has(o, "analysis") THEN o.analysis ELSE NULL,
      coverLetter |-> IF Has(o, "coverLetter") THEN o.coverLetter
                      ELSE DefaultCoverLetter,
      linkedIn |-> IF Has(o, "linkedIn") THEN o.linkedIn
                   ELSE DefaultLinkedIn(input),
      interviewPrep |-> IF Has(o, "interviewPrep") THEN o.interviewPrep
                        ELSE DefaultInterviewPrep]

\* ------------------------------------------------------- persisted blob
\* What localStorage holds under STORAGE_KEY.  kind is "absent", "garbage"
\* (text JSON.parse rejects), "null", "number", "array" (a JSON array, which
\* has none of the three slices) or "object"; resumes and jobs are the
\* arrays of an object blob.
\* A stored entry is a function from its keys to JSON values; an entry
\* that is not an object has the single key "$scalar".
Blob(k) == [kind |-> k, resumes |-> << >>, jobs |-> << >>, userProfile |-> NoKeys]
ObjectBlob(rs, js, up) ==
  [kind |-> "object", resumes |-> rs, jobs |-> js, userProfile |-> up]
\* typeof data === 'object' && data !== null
PassesObjectTest(st) == st.kind \in {"object", "array"}
Scalar == [k \in {"$scalar"} |-> JNum]
IsObject(e) == ~ Has(e, "$scalar")
NullEntry == [k \in {"$null"} |-> JNull]

DEFAULT_PROFILE == [activeResumeId |-> NULL, portfolioUrl |-> "", linkedinUrl |-> ""]

ResumeStrKeys == {"id", "fileName", "textParams", "uploadDate"}
JobStrKeys == {"title", "company", "description"}
JobOptKeys == {"id", "dateAdded"}

isStoredResume(e) ==
  /\ IsObject(e)
  /\ \A k \in ResumeStrKeys : Has(e, k) /\ IsStr(e[k])
  /\ (Has(e, "version") => e["version"] = JNum)

isStoredJobInfo(e) ==
  /\ IsObject(e)
  /\ \A k \in JobStrKeys : Has(e, k) /\ IsStr(e[k])
  /\ \A k \in JobOptKeys : Has(e, k) => IsStr(e[k])
  /\ (Has(e, "version") => e["version"] = JNum)

toResume(stored) ==
  [id |-> stored["id"], fileName |-> stored["fileName"],
   textParams |-> stored["textParams"],
   uploadDate |-> NewDate(stored["uploadDate"]), file |-> FALSE]

\* outputs of a job that was stored without any
NoOutputs == [k \in {"$undefined"} |-> UNDEF]

toJobInfo(stored) ==
  [id |-> IF Has(stored, "id") THEN stored["id"] ELSE UNDEF,
   title |-> stored["title"], company |-> stored["company"],
   description |-> stored["description"],
   dateAdded |-> IF Has(stored, "dateAdded") /\ stored["dateAdded"] # ""
                 THEN NewDate(stored["dateAdded"]) ELSE NoDate,
   outputs |-> IF Has(stored, "outputs") THEN stored["outputs"] ELSE NoOutputs]

migrateResumeData(e) ==
  IF isStoredResume(e) THEN e
  ELSE IF IsObject(e) /\ \A k \in ResumeStrKeys : Has(e, k) /\ IsStr(e[k])
       THEN [k \in ResumeStrKeys \cup {"version"} |->
               IF k = "version" THEN JNum ELSE e[k]]
       ELSE NullEntry

migrateJobData(e) ==
  IF isStoredJobInfo(e) THEN e
  ELSE IF IsObject(e) /\ \A k \in JobStrKeys : Has(e, k) /\ IsStr(e[k])
       THEN [k \in JobStrKeys \cup {"version"}
                   \cup {o \in JobOptKeys : Has(e, o) /\ IsStr(e[o])}
                   \cup ({"outputs"} \cap DOMAIN e) |->
               IF k = "version" THEN JNum ELSE e[k]]
       ELSE NullEntry

\* parseStoredResume / parseStoredJobInfo return null exactly when the
\* migration does
ResumeParses(e) == migrateResumeData(e) # NullEntry
JobParses(e) == migrateJobData(e) # NullEntry
parseStoredResume(e) == toResume(migrateResumeData(e))
parseStoredJobInfo(e) == toJobInfo(migrateJobData(e))

\* JSON.stringify of a resume and of a job; a File handle is written as {}
JFile == "{}"
StringifyResume(r) ==
  [k \in ResumeStrKeys \cup (IF r.file THEN {"file"} ELSE {}) |->
     IF k = "uploadDate" THEN DateToJSON(r.uploadDate)
     ELSE IF k = "file" THEN JFile ELSE r[k]]
\* const { file: _file, ...rest } = r
StripFile(r) == [r EXCEPT !.file = FALSE]
StringifyJob(j) ==
  [k \in JobStrKeys \cup (IF j.outputs = NoOutputs THEN {} ELSE {"outputs"})
         \cup (IF j.id = UNDEF THEN {} ELSE {"id"})
         \cup (IF j.dateAdded = NoDate THEN {} ELSE {"dateAdded"}) |->
     IF k = "dateAdded" THEN DateToJSON(j.dateAdded) ELSE j[k]]
StringifyProfile(up) == [k \in {f \in DOMAIN up : up[f] # UNDEF} |-> up[k]]

\* loadJobsData giving up on the whole list at the first entry that fails
loadJobsData_AllOrNothing(st) ==
  IF ~ PassesObjectTest(st) THEN << >>
  ELSE IF \E i \in 1..Len(st.jobs) : ~ JobParses(st.jobs[i]) THEN << >>
  ELSE LET parsed == SeqMap(SelectSeq(st.jobs, JobParses), parseStoredJobInfo)
           Ensure(j) == [j EXCEPT !.outputs = IF @ = NoOutputs THEN NoKeys ELSE @]
       IN SeqMap(parsed, Ensure)

\* jobStorage.loadJobsData
loadJobsData(st) ==
  IF ~ PassesObjectTest(st) THEN << >>
  ELSE LET parsed == SeqMap(SelectSeq(st.jobs, JobParses), parseStoredJobInfo)
           Ensure(j) == [j EXCEPT !.outputs = IF @ = NoOutputs THEN NoKeys ELSE @]
       IN SeqMap(parsed, Ensure)

\* careerStorage.loadCareerData; found is FALSE where the code returns null
\* loadCareerData keeping only the test for a missing key
loadCareerData_AbsentOnly(st) ==
  IF st.kind = "absent"
  THEN [found |-> FALSE, resumes |-> << >>, userProfile |-> DEFAULT_PROFILE]
  ELSE [found |-> TRUE,
        resumes |-> SeqMap(SelectSeq(st.resumes, ResumeParses), parseStoredResume),
        userProfile |-> Spread(DEFAULT_PROFILE, st.userProfile)]

loadCareerData(st) ==
  IF ~ PassesObjectTest(st)
  THEN [found |-> FALSE, resumes |-> << >>, userProfile |-> DEFAULT_PROFILE]
  ELSE [found |-> TRUE,
        resumes |-> SeqMap(SelectSeq(st.resumes, ResumeParses), parseStoredResume),
        userProfile |-> Spread(DEFAULT_PROFILE, st.userProfile)]

\* saveJobsData removing the key before it writes
saveJobsData_RemoveFirst(st, js, accepted) ==
  IF st.kind = "garbage" THEN st
  ELSE IF ~ accepted THEN Blob("absent")
  ELSE LET existingResumes ==
             IF PassesObjectTest(st)
             THEN SeqMap(SelectSeq(st.resumes, ResumeParses), parseStoredResume)
             ELSE << >>
           existingUserProfile ==
             IF PassesObjectTest(st) THEN Spread(DEFAULT_PROFILE, st.userProfile)
             ELSE DEFAULT_PROFILE
       IN ObjectBlob(SeqMap(existingResumes, StringifyResume),
                     SeqMap(js, StringifyJob),
                     StringifyProfile(existingUserProfile))

\* jobStorage.saveJobsData; accepted is whether setItem takes the write
saveJobsData(st, js, accepted) ==
  IF st.kind = "garbage" \/ ~ accepted THEN st
  ELSE LET existingResumes ==
             IF PassesObjectTest(st)
             THEN SeqMap(SelectSeq(st.resumes, ResumeParses), parseStoredResume)
             ELSE << >>
           existingUserProfile ==
             IF PassesObjectTest(st) THEN Spread(DEFAULT_PROFILE, st.userProfile)
             ELSE DEFAULT_PROFILE
       IN ObjectBlob(SeqMap(existingResumes, StringifyResume),
                     SeqMap(js, StringifyJob),
                     StringifyProfile(existingUserProfile))

\* saveCareerData serialising the resumes as they are
saveCareerData_KeepFile(st, rs, up, accepted) ==
  IF st.kind \in {"garbage", "null"} \/ ~ accepted THEN st
  ELSE ObjectBlob(SeqMap(rs, StringifyResume),
                  IF st.kind = "object" THEN st.jobs ELSE << >>,
                  StringifyProfile(up))

\* careerStorage.saveCareerData
saveCareerData(st, rs, up, accepted) ==
  IF st.kind \in {"garbage", "null"} \/ ~ accepted THEN st
  ELSE ObjectBlob(SeqMap(SeqMap(rs, StripFile), StringifyResume),
                  IF st.kind = "object" THEN st.jobs ELSE << >>,
                  StringifyProfile(up))

\* ------------------------------------------------------------ variables
VARIABLES
  storage,         \* the blob under STORAGE_KEY
  resumes,         \* CareerContextProvider: resumes
  activeResumeId,  \* CareerContextProvider: activeResumeId
  userProfile,     \* CareerContextProvider: userProfile
  jobs,            \* useJobApplications: jobs
  activeJobId,     \* useJobApplications: activeJobId
  ws,              \* the workspace store
  snapApp,         \* appState held by snapshotCurrentJob / addJob / addNewJobStrategy
  selApp,          \* appState held by selectJob
  tasks,           \* generations awaiting the AI service
  minted,          \* ids minted by addJob so far
  started,         \* generations started so far
  phase,           \* "start", "provider" (career provider mounted), "app"
  lastOp,          \* the handler that ran last and its argument
  away             \* set by selectJob: the job switched away from (or null)
                   \* and the workspace content before the call

vars == << storage, resumes, activeResumeId, userProfile, jobs, activeJobId,
           ws, snapApp, selApp, tasks, minted, started, phase, lastOp, away >>

career == << resumes, activeResumeId, userProfile >>

\* ------------------------------------------------- useJobApplications
JobIdOf == << "j1", "j2", "j3", "j4" >>
MissingId == "no-such-job"
NoAway == [from |-> NULL, content |-> Content(InitialWorkspace)]

Ids(js) == {js[i].id : i \in 1..Len(js)}
\* Find falling back to the last job of the list
Find_Fallback(js, id) ==
  IF \E i \in 1..Len(js) : js[i].id = id
  THEN js[CHOOSE i \in 1..Len(js) :
            js[i].id = id /\ \A k \in 1..(i - 1) : js[k].id # id]
  ELSE IF Len(js) > 0 THEN js[Len(js)] ELSE NoJob
\* jobs.find(j => j.id === id), NoJob for undefined
Find(js, id) ==
  IF \E i \in 1..Len(js) : js[i].id = id
  THEN js[CHOOSE i \in 1..Len(js) :
            js[i].id = id /\ \A k \in 1..(i - 1) : js[k].id # id]
  ELSE NoJob

\* addJob keeping the id and the outputs of the job it is given
addJobToApplications_AsGiven(js, job, newJobId, now) ==
  << [job EXCEPT !.dateAdded = now] >> \o js
\* const newJob = { ...job, id: newJobId, dateAdded: new Date(), outputs: {} }
\* setJobs(prev => [newJob, ...prev])
addJobToApplications(js, job, newJobId, now) ==
  << [job EXCEPT !.id = newJobId, !.dateAdded = now, !.outputs = NoKeys] >> \o js

\* deleteJob keeping the job and removing the others
deleteJob_Inverted(js, id) == SelectSeq(js, LAMBDA j : j.id = id)
\* setJobs(prev => prev.filter(j => j.id !== id))
deleteJob(js, id) == SelectSeq(js, LAMBDA j : j.id # id)
\* updateJobOutputs with the id test inverted
updateJobOutputs_Inverted(js, jobId, outputs) ==
  [i \in 1..Len(js) |->
     IF js[i].id # jobId THEN [js[i] EXCEPT !.outputs = outputs] ELSE js[i]]

updateJobOutputs(js, jobId, outputs) ==
  [i \in 1..Len(js) |->
     IF js[i].id = jobId THEN [js[i] EXCEPT !.outputs = outputs] ELSE js[i]]

\* currentResume: resumes.find(r => r.id === activeResumeId) || resumes[0]
HasCurrentResume == Len(resumes) > 0
currentResume ==
  IF \E i \in 1..Len(resumes) : resumes[i].id = activeResumeId
  THEN resumes[CHOOSE i \in 1..Len(resumes) : resumes[i].id = activeResumeId]
  ELSE resumes[1]

\* ------------------------------------------------------ render, effects
\* A render re-creates a memoised callback when one of its dependencies
\* changed; the callback then holds the appState of that render.
\* snapshotCurrentJob, addJob, addNewJobStrategy and
\* deleteJobWithWorkspaceClear depend on activeJobId; selectJob depends on
\* activeJobId and jobs.
Render(jobsChanged) ==
  /\ snapApp' = IF activeJobId' # activeJobId THEN Content(ws') ELSE snapApp
  /\ selApp' = IF activeJobId' # activeJobId \/ jobsChanged
               THEN Content(ws') ELSE selApp

\* useJobApplications "save on change" effect
SaveJobsEffect == storage' = saveJobsData(storage, jobs', TRUE)
\* ApplyHydrated testing research and analysis for truthiness
ApplyHydrated_Truthy(w, h) ==
  LET w1 == IF h.research \notin {UNDEF, NULL} THEN setResearch(w, h.research) ELSE w
      w2 == IF h.analysis \notin {UNDEF, NULL} THEN setAnalysis(w1, h.analysis) ELSE w1
      w3 == updateCoverLetter(w2, h.coverLetter)
      w4 == updateLinkedIn(w3, h.linkedIn)
      w5 == updateInterviewPrep(w4, h.interviewPrep)
  IN setStatus(w5, "idle")
\* ------------------------------------------------------ useJobManagement
\* selectJob step 3: apply the hydrated state to the workspace store
ApplyHydrated(w, h) ==
  LET w1 == IF h.research # UNDEF THEN setResearch(w, h.research) ELSE w
      w2 == IF h.analysis # UNDEF THEN setAnalysis(w1, h.analysis) ELSE w1
      w3 == updateCoverLetter(w2, h.coverLetter)
      w4 == updateLinkedIn(w3, h.linkedIn)
      w5 == updateInterviewPrep(w4, h.interviewPrep)
  IN setStatus(w5, "idle")

\* the jobs after the snapshot step of selectJob
SelectSnapshot(js, active, appState) ==
  IF active # NULL THEN updateJobOutputs(js, active, createSnapshot(appState)) ELSE js

\* the jobs after snapshotCurrentJob
snapshotCurrentJob(js, active, appState) ==
  IF active = NULL THEN js
  ELSE updateJobOutputs(js, active, createSnapshot(appState))

SelectJob(jobId) ==
  /\ phase = "app"
  /\ LET targetJob == Find(jobs, jobId)
         hydratedState == hydrateFromJob(targetJob, selApp["linkedIn"].input)
     IN /\ jobs' = SelectSnapshot(jobs, activeJobId, selApp)
        /\ ws' = ApplyHydrated(ws, hydratedState)
        /\ activeJobId' = jobId
        /\ away' = [from |-> IF activeJobId # jobId /\ jobId \in Ids(jobs)
                                 /\ activeJobId \in Ids(jobs)
                              THEN activeJobId ELSE NULL,
                     content |-> Content(ws)]
  /\ UNCHANGED << career, tasks, minted, started, phase >>
  /\ IF activeJobId # NULL
     THEN SaveJobsEffect /\ Render(TRUE)
     ELSE storage' = storage /\ Render(FALSE)
  /\ lastOp' = [op |-> "selectJob", id |-> jobId]

NewJobForm == [id |-> UNDEF, title |-> "SWE", company |-> "Acme",
               description |-> "desc", dateAdded |-> NoDate, outputs |-> NoKeys]

\* a job object that already carries the id and the outputs of a stored job
FilledJobForm ==
  [NewJobForm EXCEPT !.id = "s2",
                     !.outputs = [k \in {"research"} |-> "supplied research"]]
JobForms == {NewJobForm, FilledJobForm}

AddJob(job, now) ==
  /\ phase = "app"
  /\ minted < MaxJobs
  /\ jobs' = addJobToApplications(snapshotCurrentJob(jobs, activeJobId, snapApp),
                                  job, JobIdOf[minted + 1], now)
  /\ activeJobId' = JobIdOf[minted + 1]
  /\ minted' = minted + 1
  /\ ws' = setStatus(clearWorkspace(ws, snapApp["linkedIn"].input), "idle")
  /\ UNCHANGED << career, tasks, started, phase >>
  /\ SaveJobsEffect /\ Render(TRUE)
  /\ lastOp' = [op |-> "addJob", id |-> JobIdOf[minted + 1], given |-> job.id]
  /\ away' = NoAway

DeleteJobWithWorkspaceClear(jobId) ==
  /\ phase = "app"
  /\ jobId \in Ids(jobs)
  /\ jobs' = deleteJob(jobs, jobId)
  /\ activeJobId' = IF activeJobId = jobId THEN NULL ELSE activeJobId
  /\ ws' = IF activeJobId = jobId
           THEN clearWorkspace(ws, snapApp["linkedIn"].input) ELSE ws
  /\ UNCHANGED << career, tasks, minted, started, phase >>
  /\ SaveJobsEffect /\ Render(TRUE)
  /\ lastOp' = [op |-> "deleteJob", id |-> jobId,
                wasActive |-> (activeJobId = jobId)]
  /\ away' = NoAway

AddNewJobStrategy ==
  /\ phase = "app"
  /\ jobs' = snapshotCurrentJob(jobs, activeJobId, snapApp)
  /\ activeJobId' = NULL
  /\ ws' = setStatus(clearWorkspace(ws, snapApp["linkedIn"].input), "idle")
  /\ UNCHANGED << career, tasks, minted, started, phase >>
  /\ IF activeJobId # NULL
     THEN SaveJobsEffect /\ Render(TRUE)
     ELSE storage' = storage /\ Render(FALSE)
  /\ lastOp' = [op |-> "addNewJobStrategy", id |-> activeJobId]
  /\ away' = NoAway

\* NavigationSidebar: onSnapshotBeforeDashboard
SnapshotBeforeDashboard ==
  /\ phase = "app"
  /\ activeJobId # NULL
  /\ jobs' = snapshotCurrentJob(jobs, activeJobId, snapApp)
  /\ UNCHANGED << career, activeJobId, ws, tasks, minted, started, phase >>
  /\ SaveJobsEffect /\ Render(TRUE)
  /\ lastOp' = [op |-> "snapshotCurrentJob", id |-> activeJobId]
  /\ away' = NoAway

\* CoverLetterFeature.updateCoverLetterContent
UpdateCoverLetterContent(text) ==
  /\ phase = "app"
  /\ ws.coverLetter.content # text
  /\ ws' = updateCoverLetter(ws, [content |-> text])
  /\ UNCHANGED << storage, career, jobs, activeJobId, tasks, minted, started, phase >>
  /\ Render(FALSE)
  /\ lastOp' = [op |-> "edit", id |-> activeJobId]
  /\ away' = NoAway

\* ------------------------------------------------- AI operations, errors
ResearchResult == "research"
AnalysisResult == "analysis"
\* what researchCompany and analyzeResume resolve with when the API call fails
ResearchFallback == "Could not complete company research due to an error."
AnalysisFallback == "score 0"

\* researchCompany letting a failure through as null
researchCompany_Null(apiOk) == IF apiOk THEN ResearchResult ELSE NULL
\* gemini.researchCompany, gemini.analyzeResume: the value the promise
\* resolves with; neither promise rejects
researchCompany(apiOk) == IF apiOk THEN ResearchResult ELSE ResearchFallback
analyzeResume(apiOk) == IF apiOk THEN AnalysisResult ELSE AnalysisFallback

\* An error message is a sequence of text fragments (the message is their
\* concatenation, fragments separated by a space).
MaxFragments == 2

\* the messages the five throwing operations of gemini.ts give their Error
FailureMessage ==
  [extractResumeText |-> "Failed to extract text from resume.",
   generateCoverLetter |-> "Failed to generate cover letter.",
   generateLinkedInMessage |-> "Failed to generate LinkedIn message.",
   generateInterviewQuestions |-> "Failed to generate interview questions.",
   extractJobFromUrl |->
     "Could not automatically extract job details. Please paste them manually."]

Fragments ==
  {"Network Error", "Failed to fetch", "timeout", "401 unauthorized",
   "Forbidden", "Invalid file", "validation", "429", "Gemini", "upload",
   "oops"} \cup {FailureMessage[op] : op \in DOMAIN FailureMessage}

Messages == UNION {[1..n -> Fragments] : n \in 0..MaxFragments}

\* String.prototype.toLowerCase on one fragment
Lower(f) ==
  CASE f = "Network Error" -> "network error"
    [] f = "Failed to fetch" -> "failed to fetch"
    [] f = "Forbidden" -> "forbidden"
    [] f = "Invalid file" -> "invalid file"
    [] f = "Gemini" -> "gemini"
    [] f = "Failed to parse resume text. The AI service might be overloaded."
         -> "failed to parse resume text. the ai service might be overloaded."
    [] f = FailureMessage.extractResumeText -> "failed to extract text from resume."
    [] f = FailureMessage.generateCoverLetter -> "failed to generate cover letter."
    [] f = FailureMessage.generateLinkedInMessage -> "failed to generate linkedin message."
    [] f = FailureMessage.generateInterviewQuestions -> "failed to generate interview questions."
    [] f = FailureMessage.extractJobFromUrl ->
         "could not automatically extract job details. please paste them manually."
    [] OTHER -> f

\* the search strings of the five predicates that occur in a fragment,
\* compared character for character ("ai" occurs in "Failed" and "details")
Occurring(f) ==
  CASE f = "Network Error" -> {"Network Error"}
    [] f = "Failed to fetch" -> {"Failed to fetch", "ai"}
    [] f = "failed to fetch" -> {"ai"}
    [] f = "timeout" -> {"timeout"}
    [] f = "401 unauthorized" -> {"401", "unauthorized"}
    [] f = "forbidden" -> {"forbidden"}
    [] f = "Invalid file" -> {"file"}
    [] f = "invalid file" -> {"invalid", "file"}
    [] f = "validation" -> {"validation"}
    [] f = "429" -> {"429"}
    [] f = "gemini" -> {"gemini"}
    [] f = "upload" -> {"upload"}
    [] f = "Failed to parse resume text. The AI service might be overloaded." -> {"ai"}
    [] f = "failed to parse resume text. the ai service might be overloaded." -> {"ai"}
    [] f \in {FailureMessage[op] : op \in DOMAIN FailureMessage} -> {"ai"}
    [] f \in {Lower(FailureMessage[op]) : op \in DOMAIN FailureMessage} -> {"ai"}
    [] OTHER -> {}

\* the text of a message
RECURSIVE Join(_)
Join(message) ==
  IF message = << >> THEN ""
  ELSE IF Len(message) = 1 THEN message[1]
  ELSE message[1] \o " " \o Join(Tail(message))

toLowerCase(message) == [i \in 1..Len(message) |-> Lower(message[i])]
includes(message, searchString) ==
  \E i \in 1..Len(message) : searchString \in Occurring(message[i])

isNetworkError(message) ==
  \/ includes(message, "Network Error")
  \/ includes(message, "Failed to fetch")
  \/ includes(message, "timeout")

isAuthError(message) ==
  \/ includes(message, "401")
  \/ includes(message, "403")
  \/ includes(message, "unauthorized")
  \/ includes(message, "forbidden")

isValidationError(message) ==
  \/ includes(toLowerCase(message), "validation")
  \/ includes(toLowerCase(message), "invalid")

isAIError(message) ==
  \/ includes(message, "429")
  \/ includes(message, "503")
  \/ includes(toLowerCase(message), "gemini")
  \/ includes(toLowerCase(message), "ai")

isFileUploadError(message) ==
  \/ includes(toLowerCase(message), "file")
  \/ includes(toLowerCase(message), "upload")
  \/ includes(toLowerCase(message), "parsing")

NetworkSentence == "Connection issue. Please check your internet and try again."
AuthSentence == "Your session has expired. Please log in again."
ValidationSentence == "Please check your input and try again."
AISentence == "AI service temporarily unavailable. Please try again in a moment."
FileUploadSentence == "Could not read file. Please ensure it's a valid format."
DefaultSentence == "Something went wrong. Please try again."

\* handleError answering a validation error with the fixed sentence
handleError_FixedValidation(message) ==
  IF isNetworkError(message) THEN << NetworkSentence >>
  ELSE IF isAuthError(message) THEN << AuthSentence >>
  ELSE IF isValidationError(message) THEN << ValidationSentence >>
  ELSE IF isAIError(message) THEN << AISentence >>
  ELSE IF isFileUploadError(message) THEN << FileUploadSentence >>
  ELSE << DefaultSentence >>
\* ErrorService.handleError on an Error with this message; the text returned
\* is a message too
handleError(message) ==
  IF isNetworkError(message) THEN << NetworkSentence >>
  ELSE IF isAuthError(message) THEN << AuthSentence >>
  ELSE IF isValidationError(message)
    THEN (IF message # << >> THEN message ELSE << ValidationSentence >>)
  ELSE IF isAIError(message) THEN << AISentence >>
  ELSE IF isFileUploadError(message) THEN << FileUploadSentence >>
  ELSE << DefaultSentence >>

\* the API request of an operation either succeeds or fails with an error
\* carrying some message
NoError == << "no error" >>
ApiOutcomes == Messages \cup {NoError}

Resolved(value) == [kind |-> "resolved", value |-> value]
Thrown(message) == [kind |-> "thrown", message |-> message]

AIOperations ==
  {"extractResumeText", "researchCompany", "analyzeResume", "generateCoverLetter",
   "generateLinkedInMessage", "generateInterviewQuestions", "extractJobFromUrl"}

\* an operation rethrowing what it caught
AIOperation_Rethrow(op, raw) ==
  IF op = "researchCompany"
    THEN Resolved([summary |-> researchCompany(raw = NoError),
                   sources |-> IF raw = NoError THEN << "source" >> ELSE << >>])
  ELSE IF op = "analyzeResume"
    THEN Resolved([score |-> IF raw = NoError THEN 80 ELSE 0,
                   missingKeywords |-> IF raw = NoError THEN << "keyword" >> ELSE << >>])
  ELSE IF raw = NoError THEN Resolved([text |-> op]) ELSE Thrown(raw)
\* the seven operations of gemini.ts: how the promise settles, given the
\* outcome of the API request inside the operation's try block
AIOperation(op, raw) ==
  IF op = "researchCompany"
    THEN Resolved([summary |-> researchCompany(raw = NoError),
                   sources |-> IF raw = NoError THEN << "source" >> ELSE << >>])
  ELSE IF op = "analyzeResume"
    THEN Resolved([score |-> IF raw = NoError THEN 80 ELSE 0,
                   missingKeywords |-> IF raw = NoError THEN << "keyword" >> ELSE << >>])
  ELSE IF raw = NoError THEN Resolved([text |-> op])
  ELSE Thrown(<< FailureMessage[op] >>)

AIFrame ==
  UNCHANGED << storage, resumes, activeResumeId, userProfile, jobs, activeJobId,
               ws, snapApp, selApp, tasks, minted, started, phase, away >>

\* a caller awaits the operation
AICall ==
  /\ lastOp.op = "request"
  /\ lastOp' = [op |-> "aiCall", id |-> lastOp.id, raw |-> lastOp.raw,
                outcome |-> AIOperation(lastOp.id, lastOp.raw)]
  /\ AIFrame

\* a catch block passes what it caught, the Error an operation threw
\* included, to errorService.handleError
Caught ==
  IF lastOp.op = "aiCall" THEN lastOp.outcome.message ELSE lastOp.error

HandleError ==
  /\ \/ lastOp.op = "caught"
     \/ lastOp.op = "aiCall" /\ lastOp.outcome.kind = "thrown"
  /\ lastOp' = [op |-> "handleError", id |-> NULL, error |-> Caught,
                text |-> handleError(Caught)]
  /\ AIFrame

InitAI ==
  /\ storage = Blob("absent")
  /\ resumes = << >>
  /\ activeResumeId = NULL
  /\ userProfile = DEFAULT_PROFILE
  /\ jobs = << >>
  /\ activeJobId = NULL
  /\ ws = InitialWorkspace
  /\ snapApp = Content(InitialWorkspace)
  /\ selApp = Content(InitialWorkspace)
  /\ tasks = {}
  /\ minted = 0
  /\ started = 0
  /\ phase = "start"
  /\ lastOp \in {[op |-> "request", id |-> op, raw |-> raw] :
                    op \in AIOperations, raw \in ApiOutcomes}
                \cup {[op |-> "caught", id |-> NULL, error |-> message] :
                        message \in Messages}
  /\ away = NoAway

NextAI ==
  \/ AICall
  \/ HandleError

SpecAI == InitAI /\ [][NextAI]_vars

\* ---------------------------------------------------------- generations
\* A handler that awaits the AI service keeps the props of the render it
\* was started from: activeJobId and, for interview questions, the list.
Task(kind, job, step, tone, questions) ==
  [kind |-> kind, job |-> job, step |-> step, tone |-> tone, questions |-> questions,
   research |-> NULL, analysis |-> NULL]

GeneratedLetter == "generated letter"
RegeneratedLetter == "regenerated letter"
NewQuestions == << "question" >>
currentJob == Find(jobs, activeJobId)

\* AppView.handleGenerate, up to the first await
GenerateStart ==
  /\ phase = "app"
  /\ Cardinality(tasks) < MaxInflight /\ started < MaxGenerations
  /\ HasCurrentResume /\ currentJob.title # ""
  /\ ws' = setError(setStatus(setResumeText(ws, currentResume.textParams),
                              "researching"), UNDEF)
  /\ started' = started + 1
  /\ tasks' = tasks \cup {Task("generate", activeJobId, "research",
                               ToneProfessional, << >>)}
  /\ UNCHANGED << storage, career, jobs, activeJobId, minted, phase >>
  /\ Render(FALSE)
  /\ lastOp' = [op |-> "generateStart", id |-> activeJobId]
  /\ away' = NoAway

\* Promise.all([researchCompany, analyzeResume]) resolves
GenerateResearched(t, researchOk, analysisOk) ==
  /\ t \in tasks /\ t.kind = "generate" /\ t.step = "research"
  /\ ws' = setStatus(setAnalysis(setResearch(ws, researchCompany(researchOk)),
                                 analyzeResume(analysisOk)),
                     "generating")
  /\ tasks' = (tasks \ {t}) \cup
              {[t EXCEPT !.step = "coverLetter",
                         !.research = researchCompany(researchOk),
                         !.analysis = analyzeResume(analysisOk)]}
  /\ UNCHANGED << storage, career, jobs, activeJobId, minted, started, phase >>
  /\ Render(FALSE)
  /\ lastOp' = [op |-> "generateResearched", id |-> t.job]
  /\ away' = NoAway

\* the partial outputs handleGenerate hands to updateJobOutputs
GenerateOutputs(t, cl) ==
  [k \in {"research", "analysis", "coverLetter"} |->
     IF k = "research" THEN t.research
     ELSE IF k = "analysis" THEN t.analysis ELSE cl]

\* handleGenerate completing without setStatus(AppStatus.COMPLETED)
GenerateCompleted_StatusKept(t) ==
  /\ t \in tasks /\ t.kind = "generate" /\ t.step = "coverLetter"
  /\ LET newCoverLetterState ==
           [content |-> GeneratedLetter, isGenerating |-> FALSE,
            tone |-> ToneProfessional]
     IN /\ ws' = updateCoverLetter(ws, newCoverLetterState)
        /\ jobs' = IF t.job # NULL
                   THEN updateJobOutputs(jobs, t.job, GenerateOutputs(t, newCoverLetterState))
                   ELSE jobs
  /\ tasks' = tasks \ {t}
  /\ UNCHANGED << career, activeJobId, minted, started, phase >>
  /\ IF t.job # NULL
     THEN SaveJobsEffect /\ Render(TRUE)
     ELSE storage' = storage /\ Render(FALSE)
  /\ lastOp' = [op |-> "generateCompleted", id |-> t.job]
  /\ away' = NoAway
\* generateCoverLetter resolves
GenerateCompleted(t) ==
  /\ t \in tasks /\ t.kind = "generate" /\ t.step = "coverLetter"
  /\ LET newCoverLetterState ==
           [content |-> GeneratedLetter, isGenerating |-> FALSE,
            tone |-> ToneProfessional]
     IN /\ ws' = updateCoverLetter(setStatus(ws, "completed"), newCoverLetterState)
        /\ jobs' = IF t.job # NULL
                   THEN updateJobOutputs(jobs, t.job, GenerateOutputs(t, newCoverLetterState))
                   ELSE jobs
  /\ tasks' = tasks \ {t}
  /\ UNCHANGED << career, activeJobId, minted, started, phase >>
  /\ IF t.job # NULL
     THEN SaveJobsEffect /\ Render(TRUE)
     ELSE storage' = storage /\ Render(FALSE)
  /\ lastOp' = [op |-> "generateCompleted", id |-> t.job]
  /\ away' = NoAway

\* AppView.handleError leaving the status as it is
AppViewHandleError_StatusKept(w, message) == setError(w, message)
\* AppView.handleError: setStatus(AppStatus.ERROR); setError(message)
AppViewHandleError(w, message) == setError(setStatus(w, "error"), message)

\* the API errors drawn for a failing cover-letter request
RawErrors == {<< "429" >>, << "Failed to fetch" >>}

\* generateCoverLetter rejects: the catch block of handleGenerate
GenerateFailed(t, raw) ==
  /\ t \in tasks /\ t.kind = "generate" /\ t.step = "coverLetter"
  /\ LET e == AIOperation("generateCoverLetter", raw)
         message == Join(handleError(e.message))
     IN ws' = AppViewHandleError(ws, message)
  /\ tasks' = tasks \ {t}
  /\ UNCHANGED << storage, career, jobs, activeJobId, minted, started, phase >>
  /\ Render(FALSE)
  /\ lastOp' = [op |-> "generateFailed", id |-> t.job]
  /\ away' = NoAway

\* CoverLetterFeature.handleRegenerateCoverLetter, up to the await
RegenerateStart(tone) ==
  /\ phase = "app"
  /\ Cardinality(tasks) < MaxInflight /\ started < MaxGenerations
  /\ HasCurrentResume /\ ws.research # NULL
  /\ ws' = updateCoverLetter(ws, [isGenerating |-> TRUE, tone |-> tone])
  /\ started' = started + 1
  /\ tasks' = tasks \cup {Task("regenerate", activeJobId, "coverLetter", tone, << >>)}
  /\ UNCHANGED << storage, career, jobs, activeJobId, minted, phase >>
  /\ Render(FALSE)
  /\ lastOp' = [op |-> "regenerateStart", id |-> activeJobId,
                before |-> ws.coverLetter]
  /\ away' = NoAway

RegenerateCompleted(t) ==
  /\ t \in tasks /\ t.kind = "regenerate"
  /\ LET updatedCoverLetter ==
           [content |-> RegeneratedLetter, isGenerating |-> FALSE, tone |-> t.tone]
     IN /\ ws' = updateCoverLetter(ws, updatedCoverLetter)
        /\ jobs' = IF t.job # NULL
                   THEN updateJobOutputs(jobs, t.job,
                                         [k \in {"coverLetter"} |-> updatedCoverLetter])
                   ELSE jobs
  /\ tasks' = tasks \ {t}
  /\ UNCHANGED << career, activeJobId, minted, started, phase >>
  /\ IF t.job # NULL
     THEN SaveJobsEffect /\ Render(TRUE)
     ELSE storage' = storage /\ Render(FALSE)
  /\ lastOp' = [op |-> "regenerateCompleted", id |-> t.job]
  /\ away' = NoAway

RegenerateFailed(t) ==
  /\ t \in tasks /\ t.kind = "regenerate"
  /\ ws' = updateCoverLetter(ws, [isGenerating |-> FALSE])
  /\ tasks' = tasks \ {t}
  /\ UNCHANGED << storage, career, jobs, activeJobId, minted, started, phase >>
  /\ Render(FALSE)
  /\ lastOp' = [op |-> "regenerateFailed", id |-> t.job]
  /\ away' = NoAway

\* InterviewPrepFeature.handleGenerateInterviewQuestions, up to the await
InterviewStart ==
  /\ phase = "app"
  /\ Cardinality(tasks) < MaxInflight /\ started < MaxGenerations
  /\ HasCurrentResume
  /\ Len(ws.interviewPrep.questions) < MaxQuestions
  /\ ws' = updateInterviewPrep(ws, [isGenerating |-> TRUE])
  /\ started' = started + 1
  /\ tasks' = tasks \cup {Task("interview", activeJobId, "questions",
                               ToneProfessional, ws.interviewPrep.questions)}
  /\ UNCHANGED << storage, career, jobs, activeJobId, minted, phase >>
  /\ Render(FALSE)
  /\ lastOp' = [op |-> "interviewStart", id |-> activeJobId]
  /\ away' = NoAway

InterviewCompleted(t) ==
  /\ t \in tasks /\ t.kind = "interview"
  /\ LET updatedInterviewPrep ==
           [questions |-> t.questions \o NewQuestions, isGenerating |-> FALSE]
     IN /\ ws' = updateInterviewPrep(ws, updatedInterviewPrep)
        /\ jobs' = IF t.job # NULL
                   THEN updateJobOutputs(jobs, t.job,
                                         [k \in {"interviewPrep"} |-> updatedInterviewPrep])
                   ELSE jobs
  /\ tasks' = tasks \ {t}
  /\ UNCHANGED << career, activeJobId, minted, started, phase >>
  /\ IF t.job # NULL
     THEN SaveJobsEffect /\ Render(TRUE)
     ELSE storage' = storage /\ Render(FALSE)
  /\ lastOp' = [op |-> "interviewCompleted", id |-> t.job]
  /\ away' = NoAway

InterviewFailed(t) ==
  /\ t \in tasks /\ t.kind = "interview"
  /\ ws' = updateInterviewPrep(ws, [isGenerating |-> FALSE])
  /\ tasks' = tasks \ {t}
  /\ UNCHANGED << storage, career, jobs, activeJobId, minted, started, phase >>
  /\ Render(FALSE)
  /\ lastOp' = [op |-> "interviewFailed", id |-> t.job]
  /\ away' = NoAway

\* ------------------------------------------------------------------ mount
\* the activeResumeId the load effect / syncFromStorage restores
RestoredActiveResumeId(loaded, current) ==
  LET want == loaded.userProfile["activeResumeId"]
      rs == loaded.resumes
  IN IF want # NULL /\ want # "" /\ \E i \in 1..Len(rs) : rs[i].id = want
     THEN want
     ELSE IF Len(rs) > 0 THEN rs[1].id ELSE current

\* CareerContextProvider mounts: load effect, save effect, and the save
\* effect of the render the load causes
MountProvider ==
  /\ phase = "start"
  /\ LET loaded == loadCareerData(storage)
         s1 == saveCareerData(storage, resumes, userProfile, TRUE)
     IN IF loaded.found
        THEN /\ resumes' = loaded.resumes
             /\ userProfile' = loaded.userProfile
             /\ activeResumeId' = RestoredActiveResumeId(loaded, activeResumeId)
             /\ storage' = saveCareerData(s1, loaded.resumes, loaded.userProfile, TRUE)
        ELSE /\ UNCHANGED career
             /\ storage' = s1
  /\ phase' = "provider"
  /\ lastOp' = [op |-> "mountProvider", id |-> NULL]
  /\ UNCHANGED << jobs, activeJobId, ws, snapApp, selApp, tasks, minted, started, away >>

\* AppView mounting without the save effects of the render the loads cause
MountAppView_SavesOnce ==
  /\ phase = "provider"
  /\ LET synced == loadCareerData(storage)
         loaded == loadJobsData(storage)
         s1 == saveJobsData(storage, jobs, TRUE)
     IN /\ jobs' = IF Len(loaded) > 0 THEN loaded ELSE jobs
        /\ IF synced.found
           THEN /\ resumes' = synced.resumes
                /\ userProfile' = synced.userProfile
                /\ activeResumeId' = RestoredActiveResumeId(synced, activeResumeId)
                /\ storage' = s1
           ELSE /\ UNCHANGED career
                /\ storage' = s1
  /\ phase' = "app"
  /\ snapApp' = Content(ws)
  /\ selApp' = Content(ws)
  /\ lastOp' = [op |-> "mountAppView", id |-> NULL]
  /\ UNCHANGED << activeJobId, ws, tasks, minted, started, away >>
\* AppView mounts: syncFromStorage, the load and save effects of
\* useJobApplications, then the save effects of the render they cause
MountAppView ==
  /\ phase = "provider"
  /\ LET synced == loadCareerData(storage)
         loaded == loadJobsData(storage)
         s1 == saveJobsData(storage, jobs, TRUE)
         s2 == IF Len(loaded) > 0 THEN saveJobsData(s1, loaded, TRUE) ELSE s1
     IN /\ jobs' = IF Len(loaded) > 0 THEN loaded ELSE jobs
        /\ IF synced.found
           THEN /\ resumes' = synced.resumes
                /\ userProfile' = synced.userProfile
                /\ activeResumeId' = RestoredActiveResumeId(synced, activeResumeId)
                /\ storage' = saveCareerData(s2, synced.resumes, synced.userProfile, TRUE)
           ELSE /\ UNCHANGED career
                /\ storage' = s2
  /\ phase' = "app"
  /\ snapApp' = Content(ws)
  /\ selApp' = Content(ws)
  /\ lastOp' = [op |-> "mountAppView", id |-> NULL]
  /\ UNCHANGED << activeJobId, ws, tasks, minted, started, away >>

\* ------------------------------------------------------- initial states
StoredResume1 ==
  [k \in ResumeStrKeys |->
     IF k = "id" THEN "r1" ELSE IF k = "fileName" THEN "cv.pdf"
     ELSE IF k = "textParams" THEN "resume text" ELSE IsoOf[1]]
\* a job as an older build stored it: no outputs
LegacyJob ==
  [k \in JobStrKeys \cup {"id", "dateAdded"} |->
     IF k = "id" THEN "s1" ELSE IF k = "dateAdded" THEN IsoOf[1]
     ELSE IF k = "title" THEN "SWE" ELSE IF k = "company" THEN "Acme" ELSE "desc"]
\* a job stored with the outputs of an earlier session
StoredOutputs ==
  [k \in OutputKeys |->
     IF k = "research" THEN "stored research"
     ELSE IF k = "analysis" THEN "stored analysis"
     ELSE IF k = "coverLetter"
          THEN [content |-> "stored letter", isGenerating |-> FALSE,
                tone |-> ToneProfessional]
     ELSE IF k = "linkedIn"
          THEN [input |-> DefaultInput, generatedMessage |-> "stored message",
                isGenerating |-> FALSE]
     ELSE [questions |-> << "stored question" >>, isGenerating |-> FALSE]]
StoredJob ==
  [k \in JobStrKeys \cup {"id", "dateAdded", "outputs"} |->
     IF k = "id" THEN "s2" ELSE IF k = "dateAdded" THEN IsoOf[1]
     ELSE IF k = "title" THEN "PM" ELSE IF k = "company" THEN "Initech"
     ELSE IF k = "description" THEN "desc" ELSE StoredOutputs]
\* a record that lacks its title
MalformedJob == [k \in {"id", "company"} |-> IF k = "id" THEN "s3" ELSE "Acme"]

InitBlobs ==
  { Blob("absent"), Blob("garbage"),
    ObjectBlob(<< StoredResume1 >>, << LegacyJob, MalformedJob, StoredJob, Scalar >>,
               [k \in {"activeResumeId"} |-> "r1"]) }

Init ==
  /\ storage \in InitBlobs
  /\ resumes = << >>
  /\ activeResumeId = NULL
  /\ userProfile = DEFAULT_PROFILE
  /\ jobs = << >>
  /\ activeJobId = NULL
  /\ ws = InitialWorkspace
  /\ snapApp = Content(InitialWorkspace)
  /\ selApp = Content(InitialWorkspace)
  /\ tasks = {}
  /\ minted = 0
  /\ started = 0
  /\ phase = "start"
  /\ lastOp = [op |-> "init", id |-> NULL]
  /\ away = NoAway

Mount ==
  \/ MountProvider
  \/ MountAppView

\* job management and cover-letter editing
Next ==
  \/ Mount
  \/ \E id \in Ids(jobs) \cup {MissingId} : SelectJob(id)
  \/ \E job \in JobForms, now \in Dates : AddJob(job, now)
  \/ \E id \in Ids(jobs) : DeleteJobWithWorkspaceClear(id)
  \/ AddNewJobStrategy
  \/ SnapshotBeforeDashboard
  \/ \E text \in {"edited letter"} : UpdateCoverLetterContent(text)

Spec == Init /\ [][Next]_vars

\* generations interleaved with job switches
NextGen ==
  \/ Mount
  \/ \E id \in Ids(jobs) : SelectJob(id)
  \/ GenerateStart
  \/ \E t \in tasks : \E researchOk, analysisOk \in BOOLEAN :
       GenerateResearched(t, researchOk, analysisOk)
  \/ \E t \in tasks : GenerateCompleted(t)
  \/ \E t \in tasks, raw \in RawErrors : GenerateFailed(t, raw)
  \/ \E tone \in {ToneConversational} : RegenerateStart(tone)
  \/ \E t \in tasks : RegenerateCompleted(t)
  \/ \E t \in tasks : RegenerateFailed(t)
  \/ InterviewStart
  \/ \E t \in tasks : InterviewCompleted(t)
  \/ \E t \in tasks : InterviewFailed(t)

SpecGen == Init /\ [][NextGen]_vars

\* ------------------------------------------------- the storage adapter
\* saveCareerData and saveJobsData applied to lists held in memory, over
\* any prior content of the storage key.
MemResume(id, date, file) ==
  [id |-> id, fileName |-> "cv.pdf", textParams |-> "resume text",
   uploadDate |-> date, file |-> file]
MemResumes ==
  { MemResume("r1", 1, TRUE), MemResume("r2", 3, FALSE),
    MemResume("r3", InvalidDate, FALSE) }
MemJob(id, date, outputs) ==
  [id |-> id, title |-> "SWE", company |-> "Acme", description |-> "desc",
   dateAdded |-> date, outputs |-> outputs]
MemJobs ==
  { MemJob("a", 1, StoredOutputs), MemJob("b", NoDate, NoOutputs),
    MemJob(UNDEF, InvalidDate, NoKeys) }
ListsOf(S) == UNION { [1..n -> S] : n \in 0..MaxStored }

\* a resume whose uploadDate is a string no Date parses
BadDateResume ==
  [k \in ResumeStrKeys |->
     IF k = "id" THEN "r9" ELSE IF k = "fileName" THEN "old.pdf"
     ELSE IF k = "textParams" THEN "old text" ELSE "last week"]

\* a job whose id is a number, a job whose title is null, a resume without
\* its text
NumericIdJob ==
  [k \in JobStrKeys \cup {"id", "version"} |->
     IF k \in {"id", "version"} THEN JNum
     ELSE IF k = "title" THEN "QA" ELSE IF k = "company" THEN "Globex" ELSE "desc"]
NullTitleJob ==
  [k \in JobStrKeys \cup {"id"} |->
     IF k = "id" THEN "s5" ELSE IF k = "title" THEN JNull
     ELSE IF k = "company" THEN "Globex" ELSE "desc"]
TextlessResume ==
  [k \in ResumeStrKeys \ {"textParams"} |->
     IF k = "id" THEN "r8" ELSE IF k = "fileName" THEN "cv2.pdf" ELSE IsoOf[3]]
\* a resume stored together with its serialised File handle
FileResume ==
  [k \in ResumeStrKeys \cup {"file"} |->
     IF k = "id" THEN "r7" ELSE IF k = "fileName" THEN "cv3.pdf"
     ELSE IF k = "textParams" THEN "text" ELSE IF k = "file" THEN JFile
     ELSE IsoOf[1]]
MixedBlob ==
  ObjectBlob(<< TextlessResume, StoredResume1, Scalar, FileResume >>,
             << NullTitleJob, NumericIdJob, Scalar, StoredJob, MalformedJob, LegacyJob >>,
             NoKeys)

StoreBlobs ==
  InitBlobs \cup {MixedBlob} \cup
  { Blob("null"), Blob("number"), Blob("array"),
    ObjectBlob(<< Scalar, BadDateResume, StoredResume1 >>, << StoredJob >>,
               [k \in {"activeResumeId"} |-> "r9"]) }

InitStore ==
  /\ storage \in StoreBlobs
  /\ resumes \in ListsOf(MemResumes)
  /\ jobs \in ListsOf(MemJobs)
  /\ activeResumeId = NULL
  /\ userProfile = DEFAULT_PROFILE
  /\ activeJobId = NULL
  /\ ws = InitialWorkspace
  /\ snapApp = Content(InitialWorkspace)
  /\ selApp = Content(InitialWorkspace)
  /\ tasks = {}
  /\ minted = 0
  /\ started = 0
  /\ phase = "start"
  /\ lastOp = [op |-> "init", id |-> NULL]
  /\ away = NoAway

\* whether localStorage.setItem took the write
Outcome(accepted) == IF accepted THEN "accepted" ELSE "rejected"

SaveCareerData(accepted) ==
  /\ storage' = saveCareerData(storage, resumes, userProfile, accepted)
  /\ lastOp' = [op |-> "saveCareerData", id |-> Outcome(accepted)]
  /\ UNCHANGED << career, jobs, activeJobId, ws, snapApp, selApp, tasks,
                  minted, started, phase, away >>

SaveJobsData(accepted) ==
  /\ storage' = saveJobsData(storage, jobs, accepted)
  /\ lastOp' = [op |-> "saveJobsData", id |-> Outcome(accepted)]
  /\ UNCHANGED << career, jobs, activeJobId, ws, snapApp, selApp, tasks,
                  minted, started, phase, away >>

\* loadCareerData() and loadJobsData() read into memory; the id of lastOp
\* tells whether loadCareerData returned null
LoadData ==
  /\ jobs' = loadJobsData(storage)
  /\ resumes' = loadCareerData(storage).resumes
  /\ userProfile' = loadCareerData(storage).userProfile
  /\ lastOp' = [op |-> "load",
                id |-> IF loadCareerData(storage).found THEN "data" ELSE NULL]
  /\ UNCHANGED << storage, activeResumeId, activeJobId, ws, snapApp, selApp,
                  tasks, minted, started, phase, away >>

NextStore ==
  \/ LoadData
  \/ \E accepted \in BOOLEAN : SaveCareerData(accepted)
  \/ \E accepted \in BOOLEAN : SaveJobsData(accepted)

SpecStore == InitStore /\ [][NextStore]_vars

\* ---------------------------------------------- CareerContextProvider
\* setResumes([resume])
addResume_Append(rs, resume) == rs \o << resume >>
addResume(rs, resume) == << resume >>

\* setUserProfile(prev => ({ ...prev, activeResumeId: id }))
withActiveResumeId_Kept(up, id) == up
withActiveResumeId(up, id) == Spread(up, [k \in {"activeResumeId"} |-> id])

\* "save on change" effect of the provider
SaveCareerEffect == storage' = saveCareerData(storage, resumes', userProfile', TRUE)

CareerFrame ==
  UNCHANGED << jobs, activeJobId, ws, snapApp, selApp, tasks, minted, started,
               phase, away >>

AddResume(resume) ==
  /\ phase # "start"
  /\ resumes' = addResume(resumes, resume)
  /\ activeResumeId' = resume.id
  /\ userProfile' = withActiveResumeId(userProfile, resume.id)
  /\ CareerFrame
  /\ SaveCareerEffect
  /\ lastOp' = [op |-> "addResume", id |-> resume.id, held |-> Len(resumes)]

SelectResume(id) ==
  /\ phase # "start"
  /\ activeResumeId' = id
  /\ userProfile' = withActiveResumeId(userProfile, id)
  /\ resumes' = resumes
  /\ CareerFrame
  /\ SaveCareerEffect
  /\ lastOp' = [op |-> "selectResume", id |-> id]

DeleteResume(id) ==
  /\ phase # "start"
  /\ resumes' = SelectSeq(resumes, LAMBDA r : r.id # id)
  /\ activeResumeId' = IF activeResumeId = id THEN NULL ELSE activeResumeId
  /\ userProfile' = userProfile
  /\ CareerFrame
  /\ SaveCareerEffect
  /\ lastOp' = [op |-> "deleteResume", id |-> id]

SyncFromStorage ==
  /\ phase # "start"
  /\ LET loaded == loadCareerData(storage)
     IN IF loaded.found
        THEN /\ resumes' = loaded.resumes
             /\ userProfile' = loaded.userProfile
             /\ activeResumeId' = RestoredActiveResumeId(loaded, activeResumeId)
             /\ SaveCareerEffect
        ELSE UNCHANGED << career, storage >>
  /\ CareerFrame
  /\ lastOp' = [op |-> "syncFromStorage", id |-> NULL]


\* ------------------------------------------- useResumeManagement.addResume
ResumeIdOf == << "u1", "u2", "u3", "u4" >>
\* how an upload goes: the file cannot be read, the extraction request
\* fails, the extraction returns no text, only blanks, or the text
UploadOutcomes == {"unreadable", "apiError", "empty", "blank", "text"}
ExtractedText(outcome) ==
  IF outcome = "empty" THEN "" ELSE IF outcome = "blank" THEN "  " ELSE "resume text"
\* String.prototype.trim
Trim(text) == IF text \in {"", "  "} THEN "" ELSE text
EmptyTextMessage == "Failed to parse resume text. The AI service might be overloaded."

\* what the try block of addResume throws, NoError when it runs through
UploadError(outcome) ==
  IF outcome = "unreadable" THEN << "oops" >>
  ELSE IF outcome = "apiError"
    THEN AIOperation("extractResumeText", << "429" >>).message
  ELSE IF Trim(ExtractedText(outcome)) = "" THEN << EmptyTextMessage >>
  ELSE NoError

\* addResume up to the first await
UploadStart ==
  /\ phase # "start"
  /\ Cardinality(tasks) < MaxInflight /\ started < MaxGenerations
  /\ ws' = setStatus(ws, "parsing_resume")
  /\ started' = started + 1
  /\ tasks' = tasks \cup {Task("upload", NULL, "extract", ToneProfessional, << >>)}
  /\ UNCHANGED << storage, career, jobs, activeJobId, snapApp, selApp, minted,
                  phase, away >>
  /\ lastOp' = [op |-> "uploadStart", id |-> NULL]

\* addResume whose catch block leaves the status as it is
UploadSettled_StatusKept(t, outcome, now) ==
  /\ t \in tasks /\ t.kind = "upload"
  /\ tasks' = tasks \ {t}
  /\ UNCHANGED << jobs, activeJobId, snapApp, selApp, started, phase, away >>
  /\ IF UploadError(outcome) = NoError
     THEN LET newResume == [MemResume(ResumeIdOf[minted + 1], now, TRUE)
                              EXCEPT !.textParams = ExtractedText(outcome)]
          IN /\ resumes' = addResume(resumes, newResume)
             /\ activeResumeId' = newResume.id
             /\ userProfile' = withActiveResumeId(userProfile, newResume.id)
             /\ SaveCareerEffect
             /\ minted' = minted + 1
             /\ ws' = setResumeText(setStatus(ws, "idle"), ExtractedText(outcome))
             /\ lastOp' = [op |-> "uploadCompleted", id |-> newResume.id,
                           settled |-> "resolved"]
     ELSE /\ UNCHANGED << storage, career, minted >>
          /\ ws' = ws
          /\ lastOp' = [op |-> "uploadFailed", id |-> NULL, settled |-> "resolved",
                        outcome |-> outcome,
                        toast |-> Join(handleError(UploadError(outcome)))]
\* addResume after its awaits: the rest of the try block, or the catch block
UploadSettled(t, outcome, now) ==
  /\ t \in tasks /\ t.kind = "upload"
  /\ tasks' = tasks \ {t}
  /\ UNCHANGED << jobs, activeJobId, snapApp, selApp, started, phase, away >>
  /\ IF UploadError(outcome) = NoError
     THEN LET newResume == [MemResume(ResumeIdOf[minted + 1], now, TRUE)
                              EXCEPT !.textParams = ExtractedText(outcome)]
          IN /\ resumes' = addResume(resumes, newResume)
             /\ activeResumeId' = newResume.id
             /\ userProfile' = withActiveResumeId(userProfile, newResume.id)
             /\ SaveCareerEffect
             /\ minted' = minted + 1
             /\ ws' = setResumeText(setStatus(ws, "idle"), ExtractedText(outcome))
             /\ lastOp' = [op |-> "uploadCompleted", id |-> newResume.id,
                           settled |-> "resolved"]
     ELSE /\ UNCHANGED << storage, career, minted >>
          /\ ws' = setStatus(ws, "error")
          /\ lastOp' = [op |-> "uploadFailed", id |-> NULL, settled |-> "resolved",
                        outcome |-> outcome,
                        toast |-> Join(handleError(UploadError(outcome)))]

InitCareer ==
  /\ storage \in StoreBlobs
  /\ resumes = << >>
  /\ activeResumeId = NULL
  /\ userProfile = DEFAULT_PROFILE
  /\ jobs = << >>
  /\ activeJobId = NULL
  /\ ws = InitialWorkspace
  /\ snapApp = Content(InitialWorkspace)
  /\ selApp = Content(InitialWorkspace)
  /\ tasks = {}
  /\ minted = 0
  /\ started = 0
  /\ phase = "start"
  /\ lastOp = [op |-> "init", id |-> NULL]
  /\ away = NoAway

ResumeIds(rs) == {rs[i].id : i \in 1..Len(rs)}

NextCareer ==
  \/ MountProvider
  \/ SyncFromStorage
  \/ \E resume \in MemResumes : AddResume(resume)
  \/ \E id \in ResumeIds(resumes) \cup {MissingId} : SelectResume(id)
  \/ \E id \in ResumeIds(resumes) \cup {MissingId} : DeleteResume(id)
  \/ UploadStart
  \/ \E t \in tasks, outcome \in UploadOutcomes, now \in Dates :
       UploadSettled(t, outcome, now)

SpecCareer == InitCareer /\ [][NextCareer]_vars



\* ------------------------------------------ generation under job changes
\* an AI call of handleGenerate settles
Settle ==
  \E t \in tasks :
    \/ \E apiOk \in BOOLEAN : GenerateResearched(t, apiOk, apiOk)
    \/ GenerateCompleted(t)
    \/ \E raw \in RawErrors : GenerateFailed(t, raw)

\* the user changes the jobs while no job is active and while a generation
\* is in flight
MayChangeJobs == activeJobId = NULL \/ \E t \in tasks : t.kind = "generate"

\* one handleGenerate, from its call to its end, while jobs are selected,
\* added and deleted
NextLive ==
  \/ Mount
  \/ started = 0 /\ GenerateStart
  \/ Settle
  \/ MayChangeJobs /\ \E id \in Ids(jobs) : SelectJob(id)
  \/ MayChangeJobs /\ \E now \in Dates : AddJob(NewJobForm, now)
  \/ MayChangeJobs /\ \E id \in Ids(jobs) : DeleteJobWithWorkspaceClear(id)

\* the application starts over a blob written by an earlier session
InitLive ==
  /\ storage = ObjectBlob(<< StoredResume1 >>, << LegacyJob >>,
                          [k \in {"activeResumeId"} |-> "r1"])
  /\ resumes = << >>
  /\ activeResumeId = NULL
  /\ userProfile = DEFAULT_PROFILE
  /\ jobs = << >>
  /\ activeJobId = NULL
  /\ ws = InitialWorkspace
  /\ snapApp = Content(InitialWorkspace)
  /\ selApp = Content(InitialWorkspace)
  /\ tasks = {}
  /\ minted = 0
  /\ started = 0
  /\ phase = "start"
  /\ lastOp = [op |-> "init", id |-> NULL]
  /\ away = NoAway

\* every AI call eventually resolves or rejects
SpecLive == InitLive /\ [][NextLive]_vars /\ WF_vars(Settle)


\* ------------------------------------------------- mount over valid blobs
\* blobs as an earlier session of the application wrote them
ValidBlobs ==
  { ObjectBlob(<< StoredResume1 >>, << LegacyJob, StoredJob >>,
               [k \in {"activeResumeId"} |-> "r1"]),
    ObjectBlob(<< >>, << StoredJob >>, NoKeys),
    ObjectBlob(<< StoredResume1 >>, << >>,
               [k \in {"activeResumeId", "portfolioUrl"} |->
                  IF k = "activeResumeId" THEN "r1" ELSE "https://me.example"]) }

InitMount ==
  /\ storage \in ValidBlobs
  /\ resumes = << >>
  /\ activeResumeId = NULL
  /\ userProfile = DEFAULT_PROFILE
  /\ jobs = << >>
  /\ activeJobId = NULL
  /\ ws = InitialWorkspace
  /\ snapApp = Content(InitialWorkspace)
  /\ selApp = Content(InitialWorkspace)
  /\ tasks = {}
  /\ minted = 0
  /\ started = 0
  /\ phase = "start"
  /\ lastOp = [op |-> "init", id |-> NULL]
  /\ away = NoAway

SpecMount == InitMount /\ [][Next]_vars

\* ------------------------------------------------------------- properties
DefaultContent(w) ==
  /\ w.research = NULL /\ w.analysis = NULL
  /\ w.coverLetter.content = "" /\ ~ w.coverLetter.isGenerating
  /\ w.linkedIn.generatedMessage = "" /\ ~ w.linkedIn.isGenerating
  /\ w.interviewPrep.questions = << >> /\ ~ w.interviewPrep.isGenerating

\* the value field k of the workspace takes for a job that stores none
IsDefaultField(w, k) ==
  IF k \in {"research", "analysis"} THEN w[k] = NULL
  ELSE IF k = "coverLetter" THEN w[k] = DefaultCoverLetter
  ELSE IF k = "linkedIn" THEN w[k].generatedMessage = "" /\ ~ w[k].isGenerating
  ELSE w[k] = DefaultInterviewPrep

SnapshotTrigger ==
  \/ \E id \in Ids(jobs) \cup {MissingId} : SelectJob(id)
  \/ \E job \in JobForms, now \in Dates : AddJob(job, now)
  \/ AddNewJobStrategy
  \/ SnapshotBeforeDashboard

Completes(t) ==
  \/ \E researchOk, analysisOk \in BOOLEAN : GenerateResearched(t, researchOk, analysisOk)
  \/ GenerateCompleted(t)
  \/ RegenerateCompleted(t)
  \/ InterviewCompleted(t)

\* C1: switching away and back preserves a job's workspace.  For jobs A
\* and B of the list with A active, selectJob(B) directly followed by
\* selectJob(A) leaves the workspace content fields as they were just
\* before the first switch.
C1_SwitchBackRestores ==
  [][(away.from # NULL /\ SelectJob(away.from)) => Content(ws') = away.content]_vars

\* C2: every snapshot trigger (selectJob, addJob, addNewJobStrategy,
\* snapshotCurrentJob), invoked while job A is active, writes into A's
\* outputs the snapshot of the workspace as it is when the trigger runs.
C2_SnapshotIsCurrent ==
  [][(activeJobId \in Ids(jobs) /\ SnapshotTrigger)
       => Find(jobs', activeJobId).outputs = createSnapshot(ws)]_vars

\* C3: a generation started for job A that completes after the active job
\* changed to B stores nothing in B's outputs and does not alter the
\* workspace shown for B.
C3_CompletionKeepsToItsJob ==
  [][\A t \in tasks :
       (t.job # activeJobId /\ t.job \in Ids(jobs) /\ activeJobId \in Ids(jobs)
          /\ Completes(t))
       => /\ Content(ws') = Content(ws)
          /\ Find(jobs', activeJobId).outputs = Find(jobs, activeJobId).outputs]_vars

\* C4: right after selectJob(B) every workspace content field equals B's
\* stored output for that field, or the default when B stores none.
C4_WorkspaceShowsSelectedJob ==
  [][\A id \in Ids(jobs) \cup {MissingId} :
       SelectJob(id) =>
         \A k \in OutputKeys :
           IF Has(Find(jobs', id).outputs, k)
           THEN ws'[k] = Find(jobs', id).outputs[k]
           ELSE IsDefaultField(ws', k)]_vars

\* C5: when a generation completes for the active job J, J's outputs
\* receive the result and keep the stored value of every other output
\* field; the outputs of every other job are unchanged.
C5_CompletionMergesOutputs ==
  [][\A t \in tasks :
       (t.job = activeJobId /\ t.job \in Ids(jobs)
          /\ (GenerateCompleted(t) \/ RegenerateCompleted(t) \/ InterviewCompleted(t)))
       => LET before == Find(jobs, t.job).outputs
              after == Find(jobs', t.job).outputs
              written == IF t.kind = "generate"
                         THEN {"research", "analysis", "coverLetter"}
                         ELSE IF t.kind = "regenerate" THEN {"coverLetter"}
                         ELSE {"interviewPrep"}
          IN /\ \A k \in written : Has(after, k) /\ after[k] = ws'[k]
             /\ \A k \in (DOMAIN before) \ written :
                  Has(after, k) /\ after[k] = before[k]
             /\ \A i \in 1..Len(jobs) :
                  jobs[i].id # t.job => jobs'[i] = jobs[i]]_vars

C7_EmptyOutputsGiveDefaults ==
  [][\A id \in Ids(jobs) :
       (SelectJob(id) /\ Find(jobs, id).outputs = NoKeys)
       => DefaultContent(ws') /\ ws'.status = "idle"]_vars

\* selectJob has just replaced a workspace with content by the defaults of
\* a job that stores no outputs
C7_Witness ==
  /\ lastOp.op = "selectJob" /\ lastOp.id \in Ids(jobs)
  /\ Find(jobs, lastOp.id).outputs = NoKeys
  /\ away.from # NULL /\ ~ DefaultContent(away.content)
  /\ DefaultContent(ws)

\* C8: selectJob with an id that matches no job completes and leaves the
\* workspace in its default state.
C8_MissingJobGivesDefaults ==
  [][SelectJob(MissingId)
       => DefaultContent(ws') /\ ws'.status = "idle" /\ activeJobId' = MissingId]_vars

\* selectJob of an unknown id has just run over a workspace with content,
\* with jobs in the list
C8_Witness ==
  /\ lastOp = [op |-> "selectJob", id |-> MissingId]
  /\ MissingId \notin Ids(jobs) /\ Len(jobs) > 0
  /\ ~ DefaultContent(away.content)
  /\ DefaultContent(ws)

\* C9: whenever the in-memory job list changes, after the save effect has
\* run loadJobsData() returns the in-memory list, whatever the storage
\* held before.
C9_SavedJobsLoadBack ==
  [][jobs' # jobs => loadJobsData(storage') = jobs']_vars

\* what a job and a resume held in memory are expected to load back as
AsLoadedJob(j) == [j EXCEPT !.outputs = IF @ = NoOutputs THEN NoKeys ELSE @]
AsLoadedResume(r) == [r EXCEPT !.file = FALSE]

\* C10: saving the resumes and jobs held in memory (saveCareerData and
\* saveJobsData, in either order) and loading them returns the same
\* resumes and jobs field by field: the file handle is absent, dates are
\* equal as timestamps, a job saved without outputs loads with outputs {}.
C10_SaveLoadRoundTrip ==
  [][(\/ lastOp = [op |-> "saveCareerData", id |-> Outcome(TRUE)] /\ SaveJobsData(TRUE)
      \/ lastOp = [op |-> "saveJobsData", id |-> Outcome(TRUE)] /\ SaveCareerData(TRUE))
     => /\ loadJobsData(storage') = SeqMap(jobs, AsLoadedJob)
        /\ loadCareerData(storage').found
        /\ loadCareerData(storage').resumes = SeqMap(resumes, AsLoadedResume)]_vars

\* C11: each storage adapter writes only its own slice.  saveJobsData
\* leaves the stored resumes and userProfile as they load before the call,
\* saveCareerData leaves the stored jobs as they load before the call,
\* for any blob previously under the key.
C11_SaveWritesOwnSlice ==
  [][/\ (\E accepted \in BOOLEAN : SaveJobsData(accepted))
          => /\ loadCareerData(storage').resumes = loadCareerData(storage).resumes
             /\ loadCareerData(storage').userProfile = loadCareerData(storage).userProfile
     /\ (\E accepted \in BOOLEAN : SaveCareerData(accepted))
          => loadJobsData(storage') = loadJobsData(storage)]_vars

UnreadableKinds == {"absent", "garbage", "null", "number"}

\* C12: load never throws.  Over a missing key, text that is not JSON, or
\* JSON that is not an object, loadJobsData returns the empty list and
\* loadCareerData returns null.
C12_LoadOfNonObject ==
  (lastOp.op = "load" /\ storage.kind # "object")
    => jobs = << >> /\ lastOp.id = NULL

\* C12 amended: as C12 for a missing key, text that is not JSON and JSON
\* null or a JSON scalar; over a JSON array loadJobsData returns the empty
\* list and loadCareerData returns no resumes with the default profile.
C12_LoadOfNonObjectAmended ==
  lastOp.op = "load"
    => /\ storage.kind \in UnreadableKinds => jobs = << >> /\ lastOp.id = NULL
       /\ storage.kind = "array"
            => /\ jobs = << >> /\ lastOp.id = "data"
               /\ resumes = << >> /\ userProfile = DEFAULT_PROFILE

\* a load has run over text that is not JSON
C12_Witness ==
  lastOp = [op |-> "load", id |-> NULL] /\ storage.kind = "garbage" /\ jobs = << >>

\* the stored entries the loaders are to keep
ValidJobEntry(e) == IsObject(e) /\ \A k \in JobStrKeys : Has(e, k) /\ IsStr(e[k])
ValidResumeEntry(e) == IsObject(e) /\ \A k \in ResumeStrKeys : Has(e, k) /\ IsStr(e[k])

\* C13: malformed records are filtered one by one.  The loaders drop
\* exactly the stored entries that are no object or lack a required string
\* field, and return every other entry in stored order.
C13_MalformedEntriesFiltered ==
  (lastOp.op = "load" /\ storage.kind = "object")
    => LET vj == SelectSeq(storage.jobs, ValidJobEntry)
           vr == SelectSeq(storage.resumes, ValidResumeEntry)
       IN /\ Len(jobs) = Len(vj)
          /\ \A i \in 1..Len(vj) :
               /\ \A k \in JobStrKeys : jobs[i][k] = vj[i][k]
               /\ (Has(vj[i], "id") /\ IsStr(vj[i]["id"])) => jobs[i].id = vj[i]["id"]
          /\ Len(resumes) = Len(vr)
          /\ \A i \in 1..Len(vr) :
               \A k \in ResumeStrKeys \ {"uploadDate"} : resumes[i][k] = vr[i][k]

\* a load has kept the valid jobs and resumes of a blob that also holds
\* malformed ones
C13_Witness ==
  /\ lastOp.op = "load" /\ storage.kind = "object"
  /\ \E i \in 1..Len(storage.jobs) : ~ ValidJobEntry(storage.jobs[i])
  /\ \E i \in 1..Len(storage.resumes) : ~ ValidResumeEntry(storage.resumes[i])
  /\ Len(jobs) = 3 /\ Len(resumes) = 2

\* C14: save never throws.  When the write is rejected (quota exceeded,
\* serialization failure) saveJobsData and saveCareerData return and the
\* persisted blob is exactly what it was before the call.
C14_RejectedSaveKeepsBlob ==
  [][(SaveJobsData(FALSE) \/ SaveCareerData(FALSE)) => storage' = storage]_vars

\* a save of jobs that differ from the stored ones has just been rejected
C14_Witness ==
  /\ lastOp = [op |-> "saveJobsData", id |-> Outcome(FALSE)]
  /\ storage.kind = "object" /\ Len(jobs) > 0
  /\ loadJobsData(storage) # SeqMap(jobs, AsLoadedJob)

NoFileStored(st) == \A i \in 1..Len(st.resumes) : ~ Has(st.resumes[i], "file")
SaveStep == \E accepted \in BOOLEAN : SaveJobsData(accepted) \/ SaveCareerData(accepted)

\* C15: the in-memory file handle is never persisted.  Every save either
\* leaves the blob as it was or leaves a blob in which no resume record
\* carries a file field, whatever resumes are passed in.
C15_FileHandleNotPersisted ==
  [][SaveStep => (storage' = storage \/ NoFileStored(storage'))]_vars

\* resumes holding a file handle have just been written
C15_Witness ==
  /\ lastOp = [op |-> "saveCareerData", id |-> Outcome(TRUE)]
  /\ \E i \in 1..Len(resumes) : resumes[i].file
  /\ storage.kind = "object" /\ Len(storage.resumes) = Len(resumes)
  /\ NoFileStored(storage)

\* C16: addResume(r) leaves exactly one resume in the career store, r,
\* whatever the store held before; r is the active resume and
\* userProfile.activeResumeId is r's id.
C16_AddResumeReplaces ==
  [][\A r \in MemResumes :
       AddResume(r) => /\ resumes' = << r >>
                       /\ activeResumeId' = r.id
                       /\ userProfile'.activeResumeId = r.id]_vars

\* addResume has just run on a store that held two resumes
C16_Witness ==
  /\ lastOp.op = "addResume" /\ lastOp.held = 2
  /\ Len(resumes) = 1 /\ resumes[1].id = lastOp.id

CoverLetterPending(ts, t) ==
  \E u \in ts : u.kind = "generate" /\ u.job = t.job /\ u.step = "coverLetter"

\* C18: in handleGenerate research and analysis are joined before the
\* cover letter is generated, and if either of the two fails the whole
\* step fails: no cover letter is generated, status becomes error and the
\* job's outputs are not updated.
C18_EitherFailureFailsStep ==
  [][\A t \in tasks : \A researchOk, analysisOk \in BOOLEAN :
       (~ (researchOk /\ analysisOk) /\ GenerateResearched(t, researchOk, analysisOk))
       => /\ ws'.status = "error"
          /\ ~ CoverLetterPending(tasks', t)
          /\ jobs' = jobs]_vars

\* C18 amended: research and analysis are joined before the cover letter
\* is generated; a call whose API request fails resolves with its fallback
\* value, the step goes on to the cover letter with status generating, and
\* on completion status is completed and the job's outputs receive the
\* research and analysis values the join produced, fallbacks included.
C18_FailureContinuesWithFallback ==
  [][\A t \in tasks :
       /\ \A researchOk, analysisOk \in BOOLEAN :
            GenerateResearched(t, researchOk, analysisOk)
            => /\ ws'.research = (IF researchOk THEN ResearchResult ELSE ResearchFallback)
               /\ ws'.analysis = (IF analysisOk THEN AnalysisResult ELSE AnalysisFallback)
               /\ ws'.status = "generating"
               /\ CoverLetterPending(tasks', t)
               /\ jobs' = jobs
       /\ GenerateCompleted(t)
            => /\ t.research # NULL /\ t.analysis # NULL
               /\ ws'.status = "completed"
               /\ ws'.coverLetter.content = GeneratedLetter
               /\ t.job \in Ids(jobs)
                    => /\ Find(jobs', t.job).outputs["research"] = t.research
                       /\ Find(jobs', t.job).outputs["analysis"] = t.analysis]_vars

\* a generation whose research call failed has completed and stored the
\* fallback research in its job
C18_Witness ==
  /\ lastOp.op = "generateCompleted" /\ lastOp.id \in Ids(jobs)
  /\ ws.status = "completed"
  /\ Find(jobs, lastOp.id).outputs["research"] = ResearchFallback
  /\ Find(jobs, lastOp.id).outputs["coverLetter"].content = GeneratedLetter

\* C19 (as stated): when the API request of one of the seven AI operations
\* fails, the operation throws an Error with its fixed user-facing message,
\* or resolves with its safe fallback: research with an empty summary and no
\* sources, analysis with score 0 and no missing keywords; the error of the
\* API never reaches the caller.
C19_FailureThrowsOrFallsBack ==
  (lastOp.op = "aiCall" /\ lastOp.raw # NoError)
  => LET o == lastOp.outcome
     IN IF lastOp.id = "researchCompany"
          THEN o.kind = "resolved" /\ o.value.summary = "" /\ o.value.sources = << >>
        ELSE IF lastOp.id = "analyzeResume"
          THEN o.kind = "resolved" /\ o.value.score = 0
               /\ o.value.missingKeywords = << >>
        ELSE o.kind = "thrown" /\ o.message = << FailureMessage[lastOp.id] >>

\* C19 (amended): the same, except that the research fallback carries the
\* fixed sentence "Could not complete company research due to an error." as
\* its summary (and no sources) instead of an empty summary.
C19_FailureThrowsOrFallsBackAmended ==
  (lastOp.op = "aiCall" /\ lastOp.raw # NoError)
  => LET o == lastOp.outcome
     IN IF lastOp.id = "researchCompany"
          THEN /\ o.kind = "resolved" /\ o.value.sources = << >>
               /\ o.value.summary = "Could not complete company research due to an error."
        ELSE IF lastOp.id = "analyzeResume"
          THEN o.kind = "resolved" /\ o.value.score = 0
               /\ o.value.missingKeywords = << >>
        ELSE o.kind = "thrown" /\ o.message = << FailureMessage[lastOp.id] >>

\* an operation whose API request failed with a two-fragment error has
\* thrown its own message
C19_Witness ==
  /\ lastOp.op = "aiCall" /\ lastOp.id = "generateInterviewQuestions"
  /\ Len(lastOp.raw) = 2 /\ lastOp.raw[1] = "429"
  /\ lastOp.outcome.kind = "thrown"
  /\ lastOp.outcome.message # lastOp.raw

\* the category of an error: the first of network, auth, validation, AI,
\* file upload whose predicate the message satisfies
Category(message) ==
  IF isNetworkError(message) THEN "network"
  ELSE IF isAuthError(message) THEN "auth"
  ELSE IF isValidationError(message) THEN "validation"
  ELSE IF isAIError(message) THEN "ai"
  ELSE IF isFileUploadError(message) THEN "fileUpload"
  ELSE "default"

SentenceOf ==
  [network |-> NetworkSentence, auth |-> AuthSentence,
   validation |-> ValidationSentence, ai |-> AISentence,
   fileUpload |-> FileUploadSentence, default |-> DefaultSentence]

\* C20 (as stated): handleError puts every caught error in exactly one
\* category and returns that category's fixed sentence, whatever the error's
\* own message is.
C20_FixedSentencePerCategory ==
  lastOp.op = "handleError"
  => lastOp.text = << SentenceOf[Category(lastOp.error)] >>

\* C20 (amended): handleError puts every caught error in exactly one
\* category, the first in the order network, auth, validation, AI, file
\* upload whose substrings the message contains (default otherwise); it
\* returns that category's fixed sentence, except for a validation error,
\* for which it returns the error's own message.
C20_FixedSentenceExceptValidation ==
  lastOp.op = "handleError"
  => IF Category(lastOp.error) = "validation"
       THEN lastOp.text = lastOp.error
       ELSE lastOp.text = << SentenceOf[Category(lastOp.error)] >>

\* a validation error that is also an AI and a file-upload error came back
\* as its own message
C20_Witness ==
  /\ lastOp.op = "handleError"
  /\ lastOp.error = << "Invalid file", "Gemini" >>
  /\ isAIError(lastOp.error) /\ isFileUploadError(lastOp.error)
  /\ lastOp.text = lastOp.error

\* C21: deleteJob(id) removes the job with that id, outputs included, from
\* the job list and, with the save effect, from the persisted blob; the
\* other jobs stay as they are, in their order.  If the job was the active
\* one, activeJobId becomes null and the workspace content is cleared;
\* otherwise activeJobId and the workspace are unchanged.
C21_DeleteJobCascades ==
  [][\A id \in Ids(jobs) :
       DeleteJobWithWorkspaceClear(id)
       => /\ id \notin Ids(jobs') /\ id \notin Ids(loadJobsData(storage'))
          /\ jobs' = SelectSeq(jobs, LAMBDA j : j.id # id)
          /\ IF activeJobId = id
             THEN activeJobId' = NULL /\ DefaultContent(ws')
             ELSE activeJobId' = activeJobId /\ ws' = ws]_vars

\* the active job, which had outputs, was deleted while another job stays
\* in the list and in the blob
C21_Witness ==
  /\ lastOp.op = "deleteJob" /\ lastOp.wasActive /\ lastOp.id = "s2"
  /\ activeJobId = NULL /\ DefaultContent(ws)
  /\ Len(jobs) >= 1 /\ Ids(loadJobsData(storage)) = Ids(jobs)

\* the fields of a job other than its outputs
SameButOutputs(j, k) == [j EXCEPT !.outputs = NoKeys] = [k EXCEPT !.outputs = NoKeys]

\* C22: addJob(job) puts a new job first in the list, with a fresh id that
\* no existing job has (whatever id the caller supplied) and empty outputs
\* (whatever outputs the caller supplied), makes it the active job and
\* resets the workspace to the empty content with status idle; the existing
\* jobs follow in their order, unchanged except for the outputs of the
\* previously active job, which receive the snapshot.
C22_AddJobIsFreshAndFirst ==
  [][\A job \in JobForms, now \in Dates :
       AddJob(job, now)
       => /\ Len(jobs') = Len(jobs) + 1
          /\ jobs'[1].id \notin Ids(jobs) /\ jobs'[1].id # UNDEF
          /\ jobs'[1].outputs = NoKeys
          /\ jobs'[1].title = job.title /\ jobs'[1].company = job.company
          /\ jobs'[1].description = job.description
          /\ activeJobId' = jobs'[1].id
          /\ DefaultContent(ws') /\ ws'.status = "idle"
          /\ \A i \in 1..Len(jobs) :
               /\ SameButOutputs(jobs'[i + 1], jobs[i])
               /\ jobs[i].id # activeJobId => jobs'[i + 1] = jobs[i]]_vars

\* a job was added from a form carrying the id and outputs of a stored job,
\* while that stored job is in the list
C22_Witness ==
  /\ lastOp.op = "addJob" /\ lastOp.given = "s2"
  /\ Len(jobs) >= 2 /\ jobs[1].id = activeJobId /\ jobs[1].outputs = NoKeys
  /\ "s2" \in Ids(jobs) /\ jobs[1].id # "s2"

\* the sentences errorService.handleError can show the user
UserSentences ==
  {NetworkSentence, AuthSentence, ValidationSentence, AISentence,
   FileUploadSentence, DefaultSentence}

\* C23: when handleGenerate fails after passing its guard, the workspace
\* status becomes error with a user-facing message, and no step of the
\* failing call (the start, the joined research and analysis, the failure
\* handler) changes the job list or the persisted blob, so the active job's
\* stored outputs are as they were before the call.
C23_FailedGenerateKeepsOutputs ==
  [][\A t \in tasks :
       /\ \A raw \in RawErrors :
            GenerateFailed(t, raw)
            => /\ ws'.status = "error"
               /\ ws'.error \in UserSentences /\ ws'.error # Join(raw)
               /\ jobs' = jobs /\ storage' = storage
       /\ (\E researchOk, analysisOk \in BOOLEAN :
             GenerateResearched(t, researchOk, analysisOk))
            => jobs' = jobs /\ storage' = storage
       /\ GenerateStart => jobs' = jobs /\ storage' = storage]_vars

\* the generation started for the stored job s2 has failed; the job still
\* has the cover letter it was stored with
C23_Witness ==
  /\ lastOp.op = "generateFailed" /\ lastOp.id = "s2" /\ activeJobId = "s2"
  /\ ws.status = "error" /\ ws.error = AISentence
  /\ Find(jobs, "s2").outputs["coverLetter"].content = "stored letter"

BusyStatus == {"researching", "analyzing", "generating"}
GenerateInFlight == \E t \in tasks : t.kind = "generate"

\* C24: every handleGenerate that passes its guard ends its busy phase.
\* Provided each AI call eventually resolves or rejects, a generation in
\* flight leads to a state where the generation is over and the status is
\* completed or error, none of researching, analyzing, generating; this
\* also when jobs are selected, added or deleted meanwhile.
C24_GenerateEndsBusyPhase ==
  GenerateInFlight
    ~> (~ GenerateInFlight /\ ws.status \in {"completed", "error"}
        /\ ws.status \notin BusyStatus)

\* a generation has completed for a job that was deleted while the
\* generation was in flight
C24_Witness ==
  /\ lastOp.op = "generateCompleted" /\ lastOp.id # NULL
  /\ lastOp.id \notin Ids(jobs)
  /\ ws.status = "completed" /\ ~ GenerateInFlight

\* C25: if a cover-letter regeneration fails, the cover-letter state is
\* restored: content and tone are what they were before the attempt,
\* isGenerating is false again, and the job list with the active job's
\* stored outputs is unchanged.  Stated for an attempt that fails with no
\* other handler running between its start and its failure.
C25_FailedRegenerateRestores ==
  [][\A t \in tasks :
       (RegenerateFailed(t) /\ lastOp.op = "regenerateStart")
       => /\ ws'.coverLetter.content = lastOp.before.content
          /\ ws'.coverLetter.tone = lastOp.before.tone
          /\ ~ ws'.coverLetter.isGenerating
          /\ jobs' = jobs /\ storage' = storage]_vars

\* C26: if a resume upload fails (the file cannot be read, text extraction
\* throws, or it returns empty or blank text), the career store and the
\* persisted blob are unchanged: the stored resume, activeResumeId and
\* userProfile.activeResumeId are retained; the workspace status becomes
\* error, and the promise of addResume resolves: no exception escapes.
C26_FailedUploadKeepsCareer ==
  [][\A t \in tasks, now \in Dates :
       \A outcome \in UploadOutcomes \ {"text"} :
         UploadSettled(t, outcome, now)
         => /\ resumes' = resumes /\ activeResumeId' = activeResumeId
            /\ userProfile' = userProfile /\ storage' = storage
            /\ ws'.status = "error"
            /\ lastOp'.op = "uploadFailed" /\ lastOp'.settled = "resolved"]_vars

\* an upload that returned only blanks has failed while a resume is stored
\* and active
C26_Witness ==
  /\ lastOp.op = "uploadFailed" /\ lastOp.outcome = "blank"
  /\ ws.status = "error" /\ lastOp.toast = AISentence
  /\ Len(resumes) = 1 /\ activeResumeId = resumes[1].id
  /\ userProfile["activeResumeId"] = resumes[1].id

\* C27: after any sequence of addJob, selectJob, deleteJob and
\* addNewJobStrategy, selectJob with an id that is not in the list
\* included, activeJobId is null or the id of a job in the job list.
C27_ActiveJobIsListed ==
  activeJobId = NULL \/ activeJobId \in Ids(jobs)

\* the profile's pointer is null or names a stored resume, and agrees with
\* the store's activeResumeId
PointsToStoredResume(up, rs, active) ==
  /\ up["activeResumeId"] \in {NULL} \cup ResumeIds(rs)
  /\ up["activeResumeId"] = active

\* C28: after any sequence of addResume, selectResume of a stored resume
\* and deleteResume, userProfile.activeResumeId is null or the id of a
\* resume in the store, and it equals the store's activeResumeId: it is so
\* in the empty store, and each of the three operations keeps it so.
C28_ProfilePointsToStoredResume ==
  [][(/\ PointsToStoredResume(userProfile, resumes, activeResumeId)
      /\ \/ \E resume \in MemResumes : AddResume(resume)
         \/ \E id \in ResumeIds(resumes) : SelectResume(id)
         \/ \E id \in ResumeIds(resumes) \cup {MissingId} : DeleteResume(id))
     => PointsToStoredResume(userProfile', resumes', activeResumeId')]_vars

C30_ReselectIsIdempotent ==
  [][\A id \in Ids(jobs) :
       (activeJobId = id /\ SelectJob(id))
       => /\ Content(ws') = Content(ws)
          /\ Find(jobs', id).outputs = createSnapshot(Content(ws))]_vars

====
